---- MODULE Spec2Model ----
(***************************************************************************)
(* Model of backend/analysis.py: the pipeline main() = load_data,          *)
(* perform_regression, generate_future_predictions, save_results.          *)
(*                                                                         *)
(* Spec is a run of main() on any input file.  SpecForecast calls          *)
(* generate_future_predictions with any anchor year and horizon;           *)
(* SpecSave calls save_results on any loaded dataset and reads the CSV     *)
(* back.                                                                   *)
(*                                                                         *)
(* Numbers.  A number is hi * 2^53 + num / den.  hi counts units of 2^53   *)
(* (the first integer above which float64 no longer holds every int64), so *)
(* that the int64 -> float64 conversion pandas performs keeps its width    *)
(* while num and den stay small.  Arithmetic (the least-squares fit, the   *)
(* predictions) is exact, on rationals, for numbers with hi = 0; sklearn   *)
(* computes the same quantities in float64.                                *)
(***************************************************************************)
EXTENDS Integers, Sequences, FiniteSets, TLC

VARIABLES
  pc,          \* position in main(): START LOAD FIT FORECAST WRITE WRITE_JSON DONE ABORT FAULT
  inputFile,   \* data/ai_market.csv as found on disk
  df,          \* the DataFrame load_data returned
  models,      \* (model_market, model_adoption) after fit
  fc_args,     \* (base_year, years_ahead) of the generate_future_predictions call
  predictions, \* predictions_df
  csvFile,     \* data/ai_analysis_results.csv
  jsonFile,    \* data/ai_analysis_results.json
  stdout,      \* what was printed, in order
  fault,       \* the uncaught exception that ended the process, if any
  readback     \* the Historical rows a reader of the written CSV gets

vars == <<pc, inputFile, df, models, fc_args, predictions, csvFile, jsonFile,
          stdout, fault, readback>>

---------------------------------------------------------------------------
\* Bounds of the model.
MaxRows == 3
MaxHorizon == 3

\* Defaults of generate_future_predictions.
DefaultBaseYear == 2024
DefaultYearsAhead == 5

None == [t |-> "none"]

\* A DataFrame: its rows, each a record of the columns' values.
Frame(rows) == [t |-> "frame", rows |-> rows]

---------------------------------------------------------------------------
\* Exact rationals <<n, d>>, d > 0, in lowest terms.

Abs(n) == IF n < 0 THEN -n ELSE n

RECURSIVE Gcd(_, _)
Gcd(a, b) == IF b = 0 THEN a ELSE Gcd(b, a % b)

Q(n, d) ==
  LET s == IF d < 0 THEN -1 ELSE 1
      g == Gcd(Abs(n), Abs(d))
  IN  IF n = 0 THEN <<0, 1>> ELSE <<(s * n) \div g, (s * d) \div g>>

QAdd(a, b) == Q(a[1] * b[2] + b[1] * a[2], a[2] * b[2])
QSub(a, b) == Q(a[1] * b[2] - b[1] * a[2], a[2] * b[2])
QMul(a, b) == Q(a[1] * b[1], a[2] * b[2])
QDiv(a, b) == Q(a[1] * b[2], a[2] * b[1])

RECURSIVE QSum(_)
QSum(s) == IF s = <<>> THEN <<0, 1>> ELSE QAdd(Head(s), QSum(Tail(s)))

---------------------------------------------------------------------------
\* Values held in a DataFrame cell or a Python list element.
\*   int   : an int64             float : a float64
\*   nan   : NaN / None           str   : a Python string (field s)

IntV(hi, n)      == [t |-> "int",   hi |-> hi, num |-> n, den |-> 1, s |-> ""]
FloatV(hi, n, d) == [t |-> "float", hi |-> hi, num |-> n, den |-> d, s |-> ""]
NaN              == [t |-> "nan",   hi |-> 0,  num |-> 0, den |-> 1, s |-> ""]
StrV(s)          == [t |-> "str",   hi |-> 0,  num |-> 0, den |-> 1, s |-> s]

IsNum(v) == v.t \in {"int", "float"}

\* Numeric equality (100 = 100.0).
NumEq(a, b) == /\ IsNum(a) /\ IsNum(b)
               /\ a.hi = b.hi
               /\ a.num * b.den = b.num * a.den

\* The rational value of a number below 2^53.
Val(v) == Q(v.num, v.den)

\* float(v) for an int64 v: exact up to 2^53; above it (hi = 1, ulp 2) an odd
\* integer lies halfway between two floats and goes to the one with the even
\* mantissa (round-half-even).
ToFloat64(v) ==
  IF v.hi = 0 \/ v.den # 1 \/ v.num % 2 = 0
    THEN FloatV(v.hi, v.num, v.den)
    ELSE IF (v.num - 1) % 4 = 0
           THEN FloatV(v.hi, v.num - 1, 1)
           ELSE FloatV(v.hi, v.num + 1, 1)

---------------------------------------------------------------------------
\* Text of one CSV field.
\*   int : digits only ("100")          dec   : a decimal ("100.0", "12.5")
\*   empty : nothing between the commas  word : any other text (field s)

TInt(hi, n)    == [k |-> "int",   hi |-> hi, num |-> n, den |-> 1, s |-> ""]
TDec(hi, n, d) == [k |-> "dec",   hi |-> hi, num |-> n, den |-> d, s |-> ""]
TEmpty         == [k |-> "empty", hi |-> 0,  num |-> 0, den |-> 1, s |-> ""]
TWord(s)       == [k |-> "word",  hi |-> 0,  num |-> 0, den |-> 1, s |-> s]

SeqOf(rows, c) == [i \in 1..Len(rows) |-> rows[i][c]]
Rep(v, n)      == [i \in 1..n |-> v]

\* pandas' dtype inference for one parsed column: int64 when every field is
\* an integer, float64 when every field is a number or empty, object else.
ColumnDtype(rows, c) ==
  IF \E i \in 1..Len(rows) : rows[i][c].k = "word" THEN "object"
  ELSE IF \A i \in 1..Len(rows) : rows[i][c].k = "int" THEN "int64"
  ELSE "float64"

ParseCell(dtype, tok) ==
  CASE dtype = "int64"   -> IntV(tok.hi, tok.num)
    [] dtype = "float64" -> IF tok.k = "empty" THEN NaN
                            ELSE ToFloat64([IntV(tok.hi, tok.num) EXCEPT !.den = tok.den])
    [] OTHER             -> IF tok.k = "empty" THEN NaN
                            ELSE [t |-> "str", hi |-> tok.hi, num |-> tok.num,
                                  den |-> tok.den, s |-> tok.s]

\* pd.read_csv on the rows of a well-formed file: one value per field, each
\* column converted to its inferred dtype.
ParseTable(rows) ==
  [i \in 1..Len(rows) |->
     [c \in DOMAIN rows[i] |-> ParseCell(ColumnDtype(rows, c), rows[i][c])]]

Ok(v)      == [ok |-> TRUE,  val |-> v,    exc |-> "none"]
Raise(exc) == [ok |-> FALSE, val |-> None, exc |-> exc]

\* pd.read_csv(path).
read_csv(file) ==
  CASE file.kind = "missing"   -> Raise("FileNotFoundError")
    [] file.kind = "empty"     -> Raise("EmptyDataError")
    [] file.kind = "malformed" -> Raise("ParserError")
    [] OTHER                   -> Ok(Frame(ParseTable(file.rows)))

\* Variant: the handler returns an empty DataFrame instead of None.
load_data_empty_frame(file) ==
  LET r == read_csv(file)
  IN  IF r.ok THEN r
      ELSE IF r.exc = "FileNotFoundError" THEN Ok(Frame(<<>>))
      ELSE r

\* Variant: a bare except, every exception handled like the missing file.
load_data_catch_all(file) ==
  LET r == read_csv(file)
  IN  IF r.ok THEN r ELSE Ok(None)

\* load_data(): FileNotFoundError is caught and None returned; anything else
\* read_csv raises propagates.
load_data(file) ==
  LET r == read_csv(file)
  IN  IF r.ok THEN r
      ELSE IF r.exc = "FileNotFoundError" THEN Ok(None)
      ELSE r

---------------------------------------------------------------------------
\* sklearn's LinearRegression.

\* What check_array rejects in fit: no samples, NaN, non-numeric values.
Fittable(d) ==
  /\ Len(d.rows) >= 1
  /\ \A i \in 1..Len(d.rows) :
        /\ IsNum(d.rows[i].Year)
        /\ IsNum(d.rows[i].MarketSize)
        /\ IsNum(d.rows[i].AdoptionRate)

QMean(s) == QDiv(QSum(s), <<Len(s), 1>>)

\* The least-squares coefficient of centred data: sxy / sxx, and the
\* minimum-norm solution 0 when the feature is constant.
lstsq(sxy, sxx) == IF sxx[1] = 0 THEN <<0, 1>> ELSE QDiv(sxy, sxx)

\* Variant: the intercept taken without the feature's mean.
set_intercept_offset_dropped(xm, ym, coef) ==
  [coef |-> coef, intercept |-> QSub(ym, coef)]

\* intercept = mean(y) - mean(x) * coef.
set_intercept(xm, ym, coef) ==
  [coef |-> coef, intercept |-> QSub(ym, QMul(xm, coef))]

\* The fit on the data centred at (xm, ym).
fit_centred(xs, ys, xm, ym) ==
  set_intercept(xm, ym,
    lstsq(QSum([i \in 1..Len(xs) |-> QMul(QSub(xs[i], xm), QSub(ys[i], ym))]),
          QSum([i \in 1..Len(xs) |-> QMul(QSub(xs[i], xm), QSub(xs[i], xm))])))

\* fit(X, y) with one feature: centre both at their means, solve least
\* squares on the centred data, then set the intercept.
fit(xs, ys) == fit_centred(xs, ys, QMean(xs), QMean(ys))

\* model.predict on one year: coef * year + intercept.
predict(model, year) ==
  LET q == QAdd(QMul(model.coef, <<year, 1>>), model.intercept)
  IN  FloatV(0, q[1], q[2])

\* perform_regression(df): the two fitted models (the R^2 scores, which are
\* only printed and copied into the JSON report, are not modelled).
perform_regression(d) ==
  IF ~Fittable(d) THEN Raise("ValueError")
  ELSE LET n == Len(d.rows)
           X == [i \in 1..n |-> Val(d.rows[i].Year)]
       IN  Ok([t        |-> "models",
               market   |-> fit(X, [i \in 1..n |-> Val(d.rows[i].MarketSize)]),
               adoption |-> fit(X, [i \in 1..n |-> Val(d.rows[i].AdoptionRate)])])

\* generate_future_predictions(model_market, model_adoption, base_year,
\* years_ahead).  With years_ahead < 1 the list comprehension is empty,
\* np.array([]) is one-dimensional and predict raises ValueError.
generate_future_predictions(model_market, model_adoption, base_year, years_ahead) ==
  IF years_ahead < 1 THEN Raise("ValueError")
  ELSE Ok(Frame([i \in 1..years_ahead |->
            [Year                  |-> IntV(0, base_year + i),
             PredictedMarketSize   |-> predict(model_market, base_year + i),
             PredictedAdoptionRate |-> predict(model_adoption, base_year + i)]]))

---------------------------------------------------------------------------
\* save_results.

\* The dtype pandas gives a DataFrame column built from a Python list: object
\* when a string is present, int64 when every element is an int, float64
\* otherwise, with None as NaN and every int converted to float64.
Coerce(list) ==
  IF \E i \in 1..Len(list) : list[i].t = "str" THEN list
  ELSE IF \A i \in 1..Len(list) : list[i].t = "int" THEN list
  ELSE [i \in 1..Len(list) |->
          IF list[i].t = "int" THEN ToFloat64(list[i]) ELSE list[i]]

\* Variant: the predicted rows concatenated before the historical ones.
combined_df_predicted_first(df_original, df_predictions) ==
  LET o == df_original.rows
      f == df_predictions.rows
      h == Len(o)
      p == Len(f)
      cYear == Coerce(SeqOf(f, "Year") \o SeqOf(o, "Year"))
      cMS   == Coerce(Rep(NaN, p) \o SeqOf(o, "MarketSize"))
      cAR   == Coerce(Rep(NaN, p) \o SeqOf(o, "AdoptionRate"))
      cPMS  == Coerce(SeqOf(f, "PredictedMarketSize") \o Rep(NaN, h))
      cPAR  == Coerce(SeqOf(f, "PredictedAdoptionRate") \o Rep(NaN, h))
      cType == Rep(StrV("Predicted"), p) \o Rep(StrV("Historical"), h)
  IN  Frame([i \in 1..(h + p) |->
         [Year                  |-> cYear[i],
          MarketSize            |-> cMS[i],
          AdoptionRate          |-> cAR[i],
          PredictedMarketSize   |-> cPMS[i],
          PredictedAdoptionRate |-> cPAR[i],
          Type                  |-> cType[i]]])

\* combined_df: historical rows then predicted rows, the cross columns padded
\* with None.
combined_df(df_original, df_predictions) ==
  LET o == df_original.rows
      f == df_predictions.rows
      h == Len(o)
      p == Len(f)
      cYear == Coerce(SeqOf(o, "Year") \o SeqOf(f, "Year"))
      cMS   == Coerce(SeqOf(o, "MarketSize") \o Rep(NaN, p))
      cAR   == Coerce(SeqOf(o, "AdoptionRate") \o Rep(NaN, p))
      cPMS  == Coerce(Rep(NaN, h) \o SeqOf(f, "PredictedMarketSize"))
      cPAR  == Coerce(Rep(NaN, h) \o SeqOf(f, "PredictedAdoptionRate"))
      cType == Rep(StrV("Historical"), h) \o Rep(StrV("Predicted"), p)
  IN  Frame([i \in 1..(h + p) |->
         [Year                  |-> cYear[i],
          MarketSize            |-> cMS[i],
          AdoptionRate          |-> cAR[i],
          PredictedMarketSize   |-> cPMS[i],
          PredictedAdoptionRate |-> cPAR[i],
          Type                  |-> cType[i]]])

\* One field as to_csv writes it: an int as its digits, a float by repr (so
\* always with a decimal point or exponent), NaN as nothing, a string as is.
FormatCell(v) ==
  CASE v.t = "int"   -> TInt(v.hi, v.num)
    [] v.t = "float" -> TDec(v.hi, v.num, v.den)
    [] v.t = "nan"   -> TEmpty
    [] OTHER         -> TWord(v.s)

\* combined_df.to_csv(csv_path, index=False): the data lines.
to_csv(frame) ==
  [i \in 1..Len(frame.rows) |->
     [c \in DOMAIN frame.rows[i] |-> FormatCell(frame.rows[i][c])]]

\* int(x): truncation toward zero.
PyInt(v) == IF v.num >= 0 THEN v.num \div v.den ELSE -((-v.num) \div v.den)

\* round(x, 2), half to even.
Round2(v) ==
  LET n == Abs(v.num) * 100
      q == n \div v.den
      r == n % v.den
      up == 2 * r > v.den \/ (2 * r = v.den /\ q % 2 = 1)
      m == IF up THEN q + 1 ELSE q
      c == Q(IF v.num < 0 THEN -m ELSE m, 100)
  IN  FloatV(0, c[1], c[2])

\* json_data (without 'model_performance').
json_data(df_original, df_predictions) ==
  [t |-> "json",
   historical_data |->
     [i \in 1..Len(df_original.rows) |->
        [year          |-> PyInt(df_original.rows[i].Year),
         market_size   |-> ToFloat64(df_original.rows[i].MarketSize),
         adoption_rate |-> ToFloat64(df_original.rows[i].AdoptionRate)]],
   predictions |->
     [i \in 1..Len(df_predictions.rows) |->
        [year                    |-> PyInt(df_predictions.rows[i].Year),
         predicted_market_size   |-> Round2(df_predictions.rows[i].PredictedMarketSize),
         predicted_adoption_rate |-> Round2(df_predictions.rows[i].PredictedAdoptionRate)]]]

---------------------------------------------------------------------------
\* Files and the process.

AbsentFile  == [status |-> "absent", data |-> None]
\* Left by an earlier run and not touched by this one.
StaleFile   == [status |-> "stale",  data |-> None]
Written(d)  == [status |-> "written", data |-> d]
Partial(d)  == [status |-> "partial", data |-> d]
Text(rows)  == [t |-> "text", rows |-> rows]

Untouched(f) == f.status \in {"absent", "stale"}

NoFault == [at |-> "none", exc |-> "none"]
Args(base_year, years_ahead) ==
  [t |-> "args", base_year |-> base_year, years_ahead |-> years_ahead]

\* main(), line 121.
Start ==
  /\ pc = "START"
  /\ pc' = "LOAD"
  /\ stdout' = Append(stdout, "=== AI Market Analysis Started ===")
  /\ UNCHANGED <<inputFile, df, models, fc_args, predictions, csvFile, jsonFile,
                 fault, readback>>

\* main(), lines 123-130: df = load_data(); return when it is None.
Load ==
  /\ pc = "LOAD"
  /\ LET r == load_data(inputFile)
     IN  IF ~r.ok
           THEN /\ pc' = "FAULT"
                /\ fault' = [at |-> "LOAD", exc |-> r.exc]
                /\ UNCHANGED <<df, stdout>>
         ELSE IF r.val.t = "none"
           THEN /\ pc' = "ABORT"
                /\ stdout' = Append(stdout, "Error: ai_market.csv not found in data/ directory")
                /\ UNCHANGED <<df, fault>>
         ELSE   /\ pc' = "FIT"
                /\ df' = r.val
                /\ stdout' = stdout \o <<"Loaded records", "Dataset Overview:">>
                /\ UNCHANGED fault
  /\ UNCHANGED <<inputFile, models, fc_args, predictions, csvFile, jsonFile, readback>>

\* main(), lines 132-134.
Fit ==
  /\ pc = "FIT"
  /\ LET r == perform_regression(df)
     IN  IF r.ok
           THEN /\ pc' = "FORECAST"
                /\ models' = r.val
                /\ stdout' = stdout \o <<"=== Performing Linear Regression ===", "R2 Scores">>
                /\ UNCHANGED fault
           ELSE /\ pc' = "FAULT"
                /\ fault' = [at |-> "FIT", exc |-> r.exc]
                /\ stdout' = Append(stdout, "=== Performing Linear Regression ===")
                /\ UNCHANGED models
  /\ UNCHANGED <<inputFile, df, fc_args, predictions, csvFile, jsonFile, readback>>

\* The call generate_future_predictions(model_market, model_adoption,
\* base_year, years_ahead) and what main() prints around it (lines 136-140).
Forecast(base_year, years_ahead) ==
  /\ pc = "FORECAST"
  /\ fc_args' = Args(base_year, years_ahead)
  /\ LET r == generate_future_predictions(models.market, models.adoption,
                                          base_year, years_ahead)
     IN  IF r.ok
           THEN /\ pc' = "WRITE"
                /\ predictions' = r.val
                /\ stdout' = stdout \o <<"=== Generating Future Predictions ===",
                                         "Future Predictions:">>
                /\ UNCHANGED fault
           ELSE /\ pc' = "FAULT"
                /\ fault' = [at |-> "FORECAST", exc |-> r.exc]
                /\ stdout' = Append(stdout, "=== Generating Future Predictions ===")
                /\ UNCHANGED predictions
  /\ UNCHANGED <<inputFile, df, models, csvFile, jsonFile, readback>>

\* main(), line 138: the call with the defaults.
MainForecast == Forecast(DefaultBaseYear, DefaultYearsAhead)

\* Variant: a failed CSV write is swallowed and save_results goes on to the JSON.
WriteCsv_swallow ==
  /\ pc = "WRITE"
  /\ LET lines == to_csv(combined_df(df, predictions))
     IN  \E outcome \in {"ok", "open fails", "write fails"} :
           CASE outcome = "ok" ->
                  /\ csvFile' = Written(Text(lines))
                  /\ stdout' = stdout \o <<"=== Saving Results ===", "Results saved to csv">>
             [] outcome = "open fails" ->
                  /\ stdout' = Append(stdout, "=== Saving Results ===")
                  /\ UNCHANGED csvFile
             [] OTHER ->
                  /\ csvFile' = Partial(None)
                  /\ stdout' = Append(stdout, "=== Saving Results ===")
  /\ pc' = "WRITE_JSON"
  /\ UNCHANGED <<inputFile, df, models, fc_args, predictions, jsonFile, fault, readback>>

\* main() line 143 and save_results lines 72-85: build combined_df and write
\* the CSV.  The write may fail before the file is opened (it is left as it
\* was) or after (the file is truncated and holds some part of the lines,
\* which part is not modelled); OSError is not caught.
WriteCsv ==
  /\ pc = "WRITE"
  /\ LET lines == to_csv(combined_df(df, predictions))
     IN  \E outcome \in {"ok", "open fails", "write fails"} :
           CASE outcome = "ok" ->
                  /\ csvFile' = Written(Text(lines))
                  /\ pc' = "WRITE_JSON"
                  /\ stdout' = stdout \o <<"=== Saving Results ===", "Results saved to csv">>
                  /\ UNCHANGED fault
             [] outcome = "open fails" ->
                  /\ pc' = "FAULT"
                  /\ fault' = [at |-> "WRITE_CSV", exc |-> "OSError"]
                  /\ stdout' = Append(stdout, "=== Saving Results ===")
                  /\ UNCHANGED csvFile
             [] OTHER ->
                  /\ csvFile' = Partial(None)
                  /\ pc' = "FAULT"
                  /\ fault' = [at |-> "WRITE_CSV", exc |-> "OSError"]
                  /\ stdout' = Append(stdout, "=== Saving Results ===")
  /\ UNCHANGED <<inputFile, df, models, fc_args, predictions, jsonFile, readback>>

\* Variant: a failed JSON write makes the pipeline save the results again.
WriteJson_retry ==
  /\ pc = "WRITE_JSON"
  /\ \E outcome \in {"ok", "fails"} :
       CASE outcome = "ok" ->
              /\ jsonFile' = Written(json_data(df, predictions))
              /\ pc' = "DONE"
              /\ stdout' = stdout \o <<"JSON results saved", "=== Analysis Complete ===">>
         [] OTHER ->
              /\ jsonFile' = Partial(None)
              /\ pc' = "WRITE"
              /\ UNCHANGED stdout
  /\ UNCHANGED <<inputFile, df, models, fc_args, predictions, csvFile, fault, readback>>

\* save_results lines 87-117 and main() lines 146-150: build json_data, write
\* the JSON file, return; main prints the closing lines.
WriteJson ==
  /\ pc = "WRITE_JSON"
  /\ \E outcome \in {"ok", "open fails", "write fails"} :
       CASE outcome = "ok" ->
              /\ jsonFile' = Written(json_data(df, predictions))
              /\ pc' = "DONE"
              /\ stdout' = stdout \o <<"JSON results saved", "=== Analysis Complete ===">>
              /\ UNCHANGED fault
         [] outcome = "open fails" ->
              /\ pc' = "FAULT"
              /\ fault' = [at |-> "WRITE_JSON", exc |-> "OSError"]
              /\ UNCHANGED <<jsonFile, stdout>>
         [] OTHER ->
              /\ jsonFile' = Partial(None)
              /\ pc' = "FAULT"
              /\ fault' = [at |-> "WRITE_JSON", exc |-> "OSError"]
              /\ UNCHANGED stdout
  /\ UNCHANGED <<inputFile, df, models, fc_args, predictions, csvFile, readback>>

---------------------------------------------------------------------------
\* Inputs.

Row(y, m, a) == [Year |-> y, MarketSize |-> m, AdoptionRate |-> a]

Years == {2020, 2021, 2022}
Observations == {<<100, 10>>, <<150, 15>>, <<200, 20>>}

\* Rows of whole numbers: every observation in every year up to the default
\* base year, and one row of a later year.
NumericRows ==
  {Row(TInt(0, y), TInt(0, o[1]), TInt(0, o[2])) : y \in Years, o \in Observations}
    \cup {Row(TInt(0, 2025), TInt(0, 200), TInt(0, 20))}

\* A row with a missing field and one with a non-numeric field.
BadRows ==
  {Row(TInt(0, 2021), TEmpty, TInt(0, 15)), Row(TInt(0, 2022), TWord("n/a"), TInt(0, 20))}

SeqsUpTo(S, n) == UNION {[1..k -> S] : k \in 0..n}

Table(rows) == [kind |-> "table", rows |-> rows]

InputFiles ==
  {[kind |-> k, rows |-> <<>>] : k \in {"missing", "empty", "malformed"}}
    \cup {Table(r) : r \in SeqsUpTo(NumericRows \cup BadRows, MaxRows)}

\* The output files before the run: a first run, or a re-run after a
\* complete one.
OutputsAtStart == {<<AbsentFile, AbsentFile>>, <<StaleFile, StaleFile>>}

Init ==
  /\ pc = "START"
  /\ inputFile \in InputFiles
  /\ df = None
  /\ models = None
  /\ fc_args = None
  /\ predictions = None
  /\ \E o \in OutputsAtStart : csvFile = o[1] /\ jsonFile = o[2]
  /\ stdout = <<>>
  /\ fault = NoFault
  /\ readback = None

Next == Start \/ Load \/ Fit \/ MainForecast \/ WriteCsv \/ WriteJson

Spec == Init /\ [][Next]_vars

---------------------------------------------------------------------------
\* generate_future_predictions called on the models fitted to any dataset the
\* fit accepts, with any anchor year and horizon.

Anchors == {2021, 2022, 2024}

FittedTables == {r \in SeqsUpTo(NumericRows, MaxRows) : Len(r) >= 1}

InitForecast ==
  /\ pc = "FORECAST"
  /\ inputFile \in {Table(r) : r \in FittedTables}
  /\ df = load_data(inputFile).val
  /\ models = perform_regression(df).val
  /\ fc_args = None
  /\ predictions = None
  /\ csvFile = AbsentFile
  /\ jsonFile = AbsentFile
  /\ stdout = <<>>
  /\ fault = NoFault
  /\ readback = None

CallForecast == \E b \in Anchors, n \in 0..MaxHorizon : Forecast(b, n)

SpecForecast == InitForecast /\ [][CallForecast]_vars

---------------------------------------------------------------------------
\* save_results called on any loaded dataset and a forecast, and the written
\* CSV read back.

\* Whole numbers, a decimal, and whole numbers just above 2^53 (hi = 1).
SaveMarketSizes == {TInt(0, 100), TDec(0, 25, 2), TInt(1, 1), TInt(1, 2)}

SaveRows == {Row(TInt(0, y), m, TInt(0, 10)) : y \in {2020, 2021}, m \in SaveMarketSizes}

SavedModels ==
  {[t |-> "models", market |-> [coef |-> <<50, 1>>, intercept |-> <<-100900, 1>>],
                    adoption |-> [coef |-> <<1, 2>>, intercept |-> <<-1000, 1>>]],
   [t |-> "models", market |-> [coef |-> <<0, 1>>, intercept |-> <<100, 1>>],
                    adoption |-> [coef |-> <<0, 1>>, intercept |-> <<10, 1>>]]}

InitSave ==
  /\ pc = "WRITE"
  /\ inputFile \in {Table(r) : r \in {q \in SeqsUpTo(SaveRows, MaxRows) : Len(q) >= 1}}
  /\ df = load_data(inputFile).val
  /\ models \in SavedModels
  /\ fc_args = Args(DefaultBaseYear, DefaultYearsAhead)
  /\ predictions = generate_future_predictions(models.market, models.adoption,
                                               DefaultBaseYear, DefaultYearsAhead).val
  /\ \E o \in OutputsAtStart : csvFile = o[1] /\ jsonFile = o[2]
  /\ stdout = <<>>
  /\ fault = NoFault
  /\ readback = None

\* The rows of a parsed results file whose Type is Historical, projected on
\* the dataset's columns.
Historical(frame) ==
  LET h == SelectSeq(frame.rows, LAMBDA r : r.Type.t = "str" /\ r.Type.s = "Historical")
  IN  Frame([i \in 1..Len(h) |->
               Row(h[i].Year, h[i].MarketSize, h[i].AdoptionRate)])

\* A reader loads the written CSV with pd.read_csv and keeps the Historical rows.
ReadBack ==
  /\ pc = "DONE"
  /\ readback.t = "none"
  /\ csvFile.status = "written"
  /\ readback' = Historical(read_csv(Table(csvFile.data.rows)).val)
  /\ UNCHANGED <<pc, inputFile, df, models, fc_args, predictions, csvFile, jsonFile,
                 stdout, fault>>

NextSave == WriteCsv \/ WriteJson \/ ReadBack

SpecSave == InitSave /\ [][NextSave]_vars

---------------------------------------------------------------------------
\* Properties.

Phase == IF pc = "WRITE_JSON" THEN "WRITE" ELSE pc

MissingMsg == "Error: ai_market.csv not found in data/ directory"

\* C1: when data/ai_market.csv does not exist, main() prints the not-found
\* error and returns: it never gets past LOAD, fits and forecasts nothing,
\* ends without a fault, and both output files stay as they were.
C1_MissingInputWritesNothing ==
  inputFile.kind = "missing" =>
    /\ pc \in {"START", "LOAD", "ABORT"}
    /\ Untouched(csvFile) /\ Untouched(jsonFile)
    /\ models.t = "none" /\ predictions.t = "none"
    /\ fault = NoFault
    /\ pc = "ABORT" => /\ stdout = <<"=== AI Market Analysis Started ===", MissingMsg>>
                       /\ ~ENABLED Next

C1_Witness ==
  /\ pc = "ABORT"
  /\ inputFile.kind = "missing"
  /\ csvFile = StaleFile
  /\ MissingMsg = stdout[Len(stdout)]

\* The steps main() can take, and the uncaught fault that can end each.
PcEdges ==
  {<<"START", "LOAD">>, <<"LOAD", "ABORT">>, <<"LOAD", "FIT">>, <<"FIT", "FORECAST">>,
   <<"FORECAST", "WRITE">>, <<"WRITE", "WRITE_JSON">>, <<"WRITE_JSON", "DONE">>}
    \cup {<<p, "FAULT">> : p \in {"LOAD", "FIT", "FORECAST", "WRITE", "WRITE_JSON"}}

C2_Step ==
  /\ <<pc, pc'>> \in PcEdges
  /\ (csvFile'.status # csvFile.status \/ jsonFile'.status # jsonFile.status)
       => Phase = "WRITE" /\ predictions.t = "frame"

C2_State ==
  /\ (~Untouched(csvFile) \/ ~Untouched(jsonFile)) => predictions.t = "frame"
  /\ pc = "DONE" => csvFile.status = "written" /\ jsonFile.status = "written"
  /\ pc = "ABORT" => df.t = "none"

\* C2: every run goes START, LOAD, then ABORT or FIT, FORECAST, WRITE, DONE in
\* that order, each step taken once and none skipped or retried (a run an
\* uncaught fault ends stops where the fault was raised); the output files
\* change only in WRITE, after the forecast exists; DONE is reached only with
\* both files written.
C2_LinearSequence == [][C2_Step]_vars /\ []C2_State

C2_Witness ==
  /\ pc = "DONE"
  /\ csvFile.status = "written" /\ jsonFile.status = "written"
  /\ Len(stdout) = 11

ForecastYear(i) == predictions.rows[i].Year.num

\* C3 (as claimed): for any anchor year and any horizon N >= 0 the call
\* returns exactly N records for the years anchor+1 .. anchor+N; N = 0 gives
\* an empty sequence.
C3_ForecastYears ==
  fc_args.t = "args" =>
    /\ predictions.t = "frame"
    /\ Len(predictions.rows) = fc_args.years_ahead
    /\ \A i \in 1..fc_args.years_ahead : ForecastYear(i) = fc_args.base_year + i

\* C4 (as claimed): the forecast years of a run are all later than every
\* historical year of the loaded dataset, so no year is both Historical and
\* Predicted.
C4_ForecastAfterHistory ==
  predictions.t = "frame" =>
    \A i \in 1..Len(df.rows), j \in 1..Len(predictions.rows) :
      df.rows[i].Year.num < ForecastYear(j) * df.rows[i].Year.den

\* The text of a field holds the number v.
TokEq(tok, v) ==
  /\ tok.k \in {"int", "dec"}
  /\ IsNum(v)
  /\ tok.hi = v.hi
  /\ tok.num * v.den = v.num * tok.den

\* The field is not empty: it holds a number.
IsSet(tok) == tok.k \in {"int", "dec"}

\* C5: the written CSV has len(historical) + len(predictions) rows, the
\* historical rows (their years, in the dataset's order) first, each with
\* Type=Historical, MarketSize and AdoptionRate set and both predicted
\* columns empty, then the predicted rows (their years, in forecast order),
\* each with Type=Predicted, both predicted columns set and MarketSize and
\* AdoptionRate empty.
C5_MergedRows ==
  csvFile.status = "written" =>
    LET rows == csvFile.data.rows
        h == Len(df.rows)
        p == Len(predictions.rows)
    IN  /\ Len(rows) = h + p
        /\ \A i \in 1..h :
             /\ rows[i].Type = TWord("Historical")
             /\ TokEq(rows[i].Year, df.rows[i].Year)
             /\ IsSet(rows[i].MarketSize)
             /\ IsSet(rows[i].AdoptionRate)
             /\ rows[i].PredictedMarketSize = TEmpty
             /\ rows[i].PredictedAdoptionRate = TEmpty
        /\ \A j \in 1..p :
             /\ rows[h + j].Type = TWord("Predicted")
             /\ TokEq(rows[h + j].Year, predictions.rows[j].Year)
             /\ IsSet(rows[h + j].PredictedMarketSize)
             /\ IsSet(rows[h + j].PredictedAdoptionRate)
             /\ rows[h + j].MarketSize = TEmpty
             /\ rows[h + j].AdoptionRate = TEmpty

C5_Witness ==
  /\ csvFile.status = "written"
  /\ Len(df.rows) = 2
  /\ Len(csvFile.data.rows) = 2 + DefaultYearsAhead

\* C6 (as claimed): the Historical rows read back from the written CSV are
\* the original dataset: as many rows, in the same order, with the same
\* years and values.
C6_RoundTrip ==
  readback.t = "frame" =>
    /\ Len(readback.rows) = Len(df.rows)
    /\ \A i \in 1..Len(df.rows) :
         /\ NumEq(readback.rows[i].Year, df.rows[i].Year)
         /\ NumEq(readback.rows[i].MarketSize, df.rows[i].MarketSize)
         /\ NumEq(readback.rows[i].AdoptionRate, df.rows[i].AdoptionRate)

\* C7: only the missing input file is handled (ABORT, no fault).  An empty or
\* malformed file faults in LOAD, a dataset the fit rejects (no rows, a
\* missing or non-numeric value) faults in FIT, a failed write faults in
\* WRITE; a fault ends the run (nothing is enabled after it), so DONE is
\* reached by fault-free runs only.
C7_OnlyMissingFileHandled ==
  /\ pc = "ABORT" => inputFile.kind = "missing" /\ fault = NoFault
  /\ (fault # NoFault) <=> (pc = "FAULT")
  /\ pc = "FAULT" => ~ENABLED Next
  /\ inputFile.kind \in {"empty", "malformed"} =>
       /\ pc \in {"START", "LOAD", "FAULT"}
       /\ pc = "FAULT" => fault.at = "LOAD" /\ df.t = "none"
  /\ inputFile.kind = "table" => pc \in {"START", "LOAD"} \/ df.t = "frame"
  /\ (df.t = "frame" /\ ~Fittable(df)) =>
       /\ pc \in {"FIT", "FAULT"}
       /\ pc = "FAULT" => fault.at = "FIT" /\ models.t = "none"
  /\ fault.at \in {"WRITE_CSV", "WRITE_JSON"} => jsonFile.status # "written"
  /\ pc = "DONE" => fault = NoFault /\ Fittable(df)

C7_Witness ==
  /\ pc = "FAULT"
  /\ fault = [at |-> "FIT", exc |-> "ValueError"]
  /\ inputFile = Table(<<>>)

C9File ==
  Table(<<Row(TInt(0, 2020), TInt(0, 100), TInt(0, 10)),
          Row(TInt(0, 2021), TInt(0, 150), TInt(0, 15)),
          Row(TInt(0, 2022), TInt(0, 200), TInt(0, 20))>>)

\* C9 (as claimed): on [(2020,100,10),(2021,150,15),(2022,200,20)] the
\* market fit has slope 50 and intercept -100850, and slope * 2023 +
\* intercept is 250.
C9_AsClaimed ==
  (inputFile = C9File /\ models.t = "models") =>
     /\ models.market.coef = <<50, 1>>
     /\ models.market.intercept = <<-100850, 1>>
     /\ predict(models.market, 2023) = FloatV(0, 250, 1)

\* C9 (amended): on that dataset the market fit has slope 50 and intercept
\* -100900, and slope * 2023 + intercept is 250.
C9_Scenario ==
  (inputFile = C9File /\ models.t = "models") =>
     /\ models.market.coef = <<50, 1>>
     /\ models.market.intercept = <<-100900, 1>>
     /\ predict(models.market, 2023) = FloatV(0, 250, 1)

C9_Witness ==
  /\ inputFile = C9File
  /\ pc = "FORECAST"
  /\ models.t = "models"
  /\ models.market.coef[1] = 50

\* C10: the JSON file is touched only once the CSV is completely written.  A
\* failed CSV write ends the run with the JSON untouched; a failed JSON
\* write ends it with the new CSV on disk and the JSON partial or as it was.
C10_CsvBeforeJson ==
  /\ ~Untouched(jsonFile) => csvFile.status = "written"
  /\ fault.at = "WRITE_CSV" =>
       pc = "FAULT" /\ csvFile.status # "written" /\ Untouched(jsonFile)
  /\ fault.at = "WRITE_JSON" =>
       /\ pc = "FAULT"
       /\ csvFile.status = "written"
       /\ jsonFile.status \in {"absent", "stale", "partial"}
  /\ pc = "WRITE_JSON" => csvFile.status = "written" /\ Untouched(jsonFile)

\* The inconsistent pair: a new CSV beside the JSON of an earlier run.
C10_Witness ==
  /\ pc = "FAULT"
  /\ fault.at = "WRITE_JSON"
  /\ csvFile.status = "written"
  /\ jsonFile = StaleFile

====
